---- MODULE Spec2Model ----
(***************************************************************************)
(* The job-queue engine of src/App.tsx (processQueue, handleStop,          *)
(* handleClearAll, handleRetry, handleDeleteSegment) driving               *)
(* generateSpeechSegment of src/services/geminiService.ts.                 *)
(*                                                                         *)
(* JavaScript runs one task at a time: a click handler, a timer callback   *)
(* or the arrival of a remote response runs to completion together with    *)
(* every promise continuation it makes runnable.  Each action below is one *)
(* such task.  React state updates are all functional or merged updates,   *)
(* applied in the order they were queued, so `projects` is the state after *)
(* the updates queued so far.  A callback closes over the `projects` of    *)
(* the render it was created in: processQueue reads that snapshot.         *)
(***************************************************************************)
EXTENDS Integers, Sequences, FiniteSets, TLC

\* Program constants.
CONCURRENCY_LIMIT == 2
maxRetries == 3

\* Bounds of the model: the units ever created (enough to fill the pool and
\* keep one unit waiting), the processQueue calls that enter the loop, the
\* pending retry timers, the user's clicks, the failing remote calls.
MaxUnits == CONCURRENCY_LIMIT + 1
MaxRuns == 3
MaxTimers == 1
MaxClicks == 2
MaxFailures == 4
FairMaxRuns == 2
FairMaxClicks == 1
FairMaxFailures == 3
KeyMaxRuns == 2
KeyMaxClicks == 1
KeyMaxFailures == 1
TwoMaxRuns == 2
TwoMaxClicks == 2
TwoMaxFailures == 1
MaxExportUnits == 2
MaxChunkLength == 5
MaxTextLen == 5

VARIABLES
    projects,        \* App.tsx:39   project id -> ProjectState
    stopSignalsRef,  \* App.tsx:54   project id -> stop signal
    runs,            \* the invocations of processQueue that reached the loop
    timers,          \* App.tsx:379  pending setTimeout callbacks of handleRetry
    nextId,          \* App.tsx:11   generateId: ids handed out so far + 1
    apiKeys,         \* App.tsx:46   the credential pool
    envApiKey,       \* geminiService.ts:17  process.env.API_KEY
    clicks,          \* the user's clicks on Stop, Clear All, Retry and Remove so far
    failures,        \* the remote calls that have failed so far
    exportUnits,     \* App.tsx:424  the segments handleExportMerged reads
    exportOut,       \* App.tsx:425-494  what handleExportMerged did
    inputText,       \* App.tsx:214  activeProject.inputText, character by character
    maxChunkLength,  \* App.tsx:8    the limit handleChunkText compares with
    segmentText      \* App.tsx:232  the text of each segment chunking made

vars == <<projects, stopSignalsRef, runs, timers, nextId, apiKeys, envApiKey, clicks,
          failures, exportUnits, exportOut, inputText, maxChunkLength, segmentText>>

textVars == <<inputText, maxChunkLength, segmentText>>

Undefined == <<>>

ProjectIds == {1}
UnitIds == 1..MaxUnits
RunIds == 1..MaxRuns

\* The error texts a remote call can fail with: the adapter's own message for a
\* response without audio, and a provider error carried as a JSON envelope.
EmptyResponseMessage == "No audio data received. The model might have blocked the request."
RemoteRejectedMessage == "got status: 429 {\"error\":{\"code\":429,\"message\":\"quota\"}}"
CredentialMissingMessage == "API Key not found. Please add your Custom API Key in Settings (Gear Icon) or configure the environment."
RemoteMessages == {EmptyResponseMessage, RemoteRejectedMessage}

createNewProject ==
    [segments |-> <<>>,
     isProcessing |-> FALSE,
     progress |-> [current |-> 0, total |-> 0]]

\* The volume is kept in tenths: 10 is 1.0.
NewSegment(id) ==
    [id |-> id, status |-> "IDLE", audioUrl |-> Undefined, error |-> Undefined,
     volume |-> 10, isSelected |-> FALSE]

SegIds(segs) == {segs[i].id : i \in 1..Len(segs)}

SegOf(segs, id) == segs[CHOOSE i \in 1..Len(segs) : segs[i].id = id]

\* geminiService.ts:98-118: a message holding a JSON object is replaced by the
\* object's error.message (+ code).
NormalizeErrorMessage(m) ==
    IF m = RemoteRejectedMessage THEN "quota (Code: 429)" ELSE m

\* The rotation stuck on the first key of the pool.
KeyToUseFirst(keyIndex) ==
    IF Len(apiKeys) > 0 THEN apiKeys[1] ELSE Undefined

\* App.tsx:300-302
KeyToUse(keyIndex) ==
    IF Len(apiKeys) > 0 THEN apiKeys[(keyIndex % Len(apiKeys)) + 1] ELSE Undefined

\* geminiService.ts:17
EffectiveKey(customApiKey) ==
    IF customApiKey # Undefined THEN customApiKey ELSE envApiKey

\* App.tsx:267
SelectIds(segs) ==
    SelectSeq([i \in 1..Len(segs) |-> segs[i].id],
              LAMBDA id : SegOf(segs, id).status \in {"IDLE", "QUEUED"})

InSeq(s, x) == \E i \in 1..Len(s) : s[i] = x

\* App.tsx:280-284
MarkProcessing(segs, sel) ==
    [i \in 1..Len(segs) |->
        IF InSeq(sel, segs[i].id)
        THEN [segs[i] EXCEPT !.status = "PROCESSING", !.error = Undefined]
        ELSE segs[i]]

\* The success update adding the unit when the list no longer holds it.
SetCompletedOrAdd(segs, id, audioUrl) ==
    IF id \in SegIds(segs)
    THEN [i \in 1..Len(segs) |->
            IF segs[i].id = id
            THEN [segs[i] EXCEPT !.status = "COMPLETED", !.audioUrl = audioUrl]
            ELSE segs[i]]
    ELSE Append(segs, [id |-> id, status |-> "COMPLETED", audioUrl |-> audioUrl,
                       error |-> Undefined, volume |-> 10, isSelected |-> FALSE])

\* App.tsx:314
SetCompleted(segs, id, audioUrl) ==
    [i \in 1..Len(segs) |->
        IF segs[i].id = id
        THEN [segs[i] EXCEPT !.status = "COMPLETED", !.audioUrl = audioUrl]
        ELSE segs[i]]

\* App.tsx:326
SetError(segs, id, message) ==
    [i \in 1..Len(segs) |->
        IF segs[i].id = id
        THEN [segs[i] EXCEPT !.status = "ERROR", !.error = message]
        ELSE segs[i]]

executing(r) == DOMAIN r.task

\* App.tsx:308-336: the continuation of one task after generateSpeechSegment
\* settled.  st = [p |-> the project, r |-> the run].
CommitOutcome(st, u, outcome, stop) ==
    IF stop
    THEN st
    ELSE LET segs == IF outcome.ok
                     THEN SetCompleted(st.p.segments, u, outcome.audioUrl)
                     ELSE SetError(st.p.segments, u, outcome.message)
             cc == st.r.completedCount + 1
         IN [p |-> [st.p EXCEPT !.segments = segs, !.progress.current = cc],
             r |-> [st.r EXCEPT !.completedCount = cc]]

\* A run whose processQueue call has returned: its locals are gone.  `calls`
\* is the history of the run's first remote calls, in the order they were
\* issued (geminiService.ts:60 reached synchronously from App.tsx:306), and
\* `keys` the history of the keyToUse of its loop iterations (App.tsx:300-302).
ReturnedRun(j) ==
    [job |-> j, sel |-> <<>>, idx |-> 1, task |-> <<>>, completedCount |-> 0,
     keyIndex |-> 0, pc |-> "done", stopped |-> FALSE, stoppedEarly |-> FALSE,
     calls |-> <<>>, keys |-> <<>>]

\* The final update clearing isProcessing but leaving the progress counters.
FinishLeavesProgress(st) ==
    [p |-> [st.p EXCEPT !.isProcessing = FALSE], r |-> ReturnedRun(st.r.job)]

\* App.tsx:351-354
Finish(st) ==
    [p |-> [st.p EXCEPT !.isProcessing = FALSE,
                        !.progress = [current |-> 0, total |-> 0]],
     r |-> ReturnedRun(st.r.job)]

\* App.tsx:349
AwaitAll(st) ==
    IF executing(st.r) = {} THEN Finish(st) ELSE [st EXCEPT !.r.pc = "all"]

\* The pool test off by one: a third call is let through.
PoolFullOffByOne(r) == Cardinality(executing(r)) > CONCURRENCY_LIMIT

\* App.tsx:344
PoolFull(r) == Cardinality(executing(r)) >= CONCURRENCY_LIMIT

\* The selection taken from its far end.
NextUnitFromEnd(r) == r.sel[Len(r.sel) - r.idx + 1]

\* App.tsx:296-299: the unit of the loop's current iteration.
NextUnit(r) == r.sel[r.idx]

NewTask(key) ==
    [attempt |-> 1, phase |-> "calling", lastError |-> Undefined, key |-> key,
     stopped |-> FALSE]

\* App.tsx:296-347: the for loop from the top of an iteration up to its next
\* await.  A unit dispatched without any credential is rejected before a
\* remote call is made (geminiService.ts:19-21) and its task has run to its
\* end before the loop's next await returns.
RECURSIVE DispatchLoop(_, _)
DispatchLoop(st, stop) ==
    LET r == st.r IN
    IF r.idx > Len(r.sel) \/ stop
    THEN AwaitAll(st)
    ELSE LET u == NextUnit(r)
             keyToUse == KeyToUse(r.keyIndex)
             r1 == [r EXCEPT !.idx = @ + 1,
                             !.keyIndex = IF Len(apiKeys) > 0 THEN @ + 1 ELSE @,
                             !.keys = Append(@, keyToUse)]
         IN IF EffectiveKey(keyToUse) = Undefined
            THEN DispatchLoop(
                    CommitOutcome([p |-> st.p, r |-> r1], u,
                        [ok |-> FALSE, message |-> <<CredentialMissingMessage, 0>>],
                        stop),
                    stop)
            ELSE LET r2 == [r1 EXCEPT !.task =
                                [x \in DOMAIN r1.task \cup {u} |->
                                    IF x = u THEN NewTask(EffectiveKey(keyToUse))
                                    ELSE r1.task[x]],
                                      !.calls = Append(@, u)]
                 IN IF PoolFull(r2)
                    THEN [p |-> st.p, r |-> [r2 EXCEPT !.pc = "race"]]
                    ELSE DispatchLoop([p |-> st.p, r |-> r2], stop)

\* A failed unit ending the loop: the rest of the selection is not dispatched.
ResumeAbortsOnError(st, stop) ==
    IF \E i \in 1..Len(st.p.segments) :
          InSeq(st.r.sel, st.p.segments[i].id) /\ st.p.segments[i].status = "ERROR"
    THEN AwaitAll(st)
    ELSE IF st.r.pc = "race" THEN DispatchLoop(st, stop) ELSE AwaitAll(st)

\* The run continues after one of its tasks settled: out of Promise.race
\* (App.tsx:345) into the loop, or out of Promise.all (App.tsx:349).
Resume(st, stop) ==
    IF st.r.pc = "race" THEN DispatchLoop(st, stop) ELSE AwaitAll(st)

NewRun(j, sel) ==
    [job |-> j, sel |-> sel, idx |-> 1, task |-> <<>>, completedCount |-> 0,
     keyIndex |-> 0, pc |-> "race", stopped |-> FALSE, stoppedEarly |-> FALSE,
     calls |-> <<>>, keys |-> <<>>]

\* What processQueue reads of the render it closes over (App.tsx:261-267).
Snapshot(p) ==
    [isProcessing |-> p.isProcessing,
     segments |-> [i \in 1..Len(p.segments) |->
                     [id |-> p.segments[i].id, status |-> p.segments[i].status]]]

\* App.tsx:260-354, called with the project as of the render `snap`.
processQueue(j, snap) ==
    IF snap.isProcessing
    THEN UNCHANGED <<projects, stopSignalsRef, runs>>
    ELSE LET sel == SelectIds(snap.segments)
             total == Len(sel)
         IN /\ stopSignalsRef' = [stopSignalsRef EXCEPT ![j] = FALSE]
            /\ IF total = 0
               THEN /\ projects' = [projects EXCEPT ![j].isProcessing = FALSE]
                    /\ UNCHANGED runs
               ELSE /\ Len(runs) < MaxRuns
                    /\ LET p0 == [projects[j] EXCEPT
                                    !.isProcessing = TRUE,
                                    !.progress = [current |-> 0, total |-> total],
                                    !.segments = MarkProcessing(@, sel)]
                           st == DispatchLoop([p |-> p0, r |-> NewRun(j, sel)], FALSE)
                       IN /\ projects' = [projects EXCEPT ![j] = st.p]
                          /\ runs' = Append(runs, st.r)

\* App.tsx:768-783: the Generate All button, shown while the project is not
\* processing, enabled unless there is no segment or all are completed.
GenerateAll(j) ==
    /\ ~projects[j].isProcessing
    /\ Len(projects[j].segments) > 0
    /\ \E i \in 1..Len(projects[j].segments) :
          projects[j].segments[i].status # "COMPLETED"
    /\ processQueue(j, Snapshot(projects[j]))
    /\ UNCHANGED <<timers, nextId, apiKeys, envApiKey, exportUnits, exportOut, textVars, clicks, failures>>

\* App.tsx:379-381: the timer of handleRetry fires.
RetryTimer ==
    /\ timers # <<>>
    /\ processQueue(Head(timers).job, Head(timers).snap)
    /\ timers' = Tail(timers)
    /\ UNCHANGED <<nextId, apiKeys, envApiKey, exportUnits, exportOut, textVars, clicks, failures>>

\* History kept for the claims: which runs and tasks a stop was issued to.
MarkStopped(j) ==
    [r \in 1..Len(runs) |->
        IF runs[r].job = j /\ runs[r].pc # "done"
        THEN [runs[r] EXCEPT
                !.stopped = TRUE,
                !.stoppedEarly = @ \/ (~runs[r].stopped /\ runs[r].completedCount = 0
                                        /\ Cardinality(executing(runs[r])) = runs[r].idx - 1),
                !.task = [u \in DOMAIN @ |-> [@[u] EXCEPT !.stopped = TRUE]]]
        ELSE runs[r]]

\* Every project's signal raised instead of one.
SetStopSignalOfAll(sig, j) == [k \in DOMAIN sig |-> TRUE]

\* App.tsx:359
SetStopSignal(sig, j) == [sig EXCEPT ![j] = TRUE]

\* App.tsx:358-361, the Stop button (shown while the project is processing).
handleStop(j) ==
    /\ clicks < MaxClicks
    /\ projects[j].isProcessing
    /\ stopSignalsRef' = SetStopSignal(stopSignalsRef, j)
    /\ projects' = [projects EXCEPT ![j].isProcessing = FALSE]
    /\ runs' = MarkStopped(j)
    /\ UNCHANGED <<timers, nextId, apiKeys, envApiKey, exportUnits, exportOut, textVars>>
    /\ clicks' = clicks + 1
    /\ UNCHANGED failures

\* App.tsx:363-371
handleClearAll(j) ==
    /\ clicks < MaxClicks
    /\ Len(projects[j].segments) > 0
    /\ stopSignalsRef' = SetStopSignal(stopSignalsRef, j)
    /\ projects' = [projects EXCEPT ![j].isProcessing = FALSE, ![j].segments = <<>>]
    /\ runs' = MarkStopped(j)
    /\ UNCHANGED <<timers, nextId, apiKeys, envApiKey, exportUnits, exportOut, textVars>>
    /\ clicks' = clicks + 1
    /\ UNCHANGED failures

\* App.tsx:373-382 with the Retry button of SegmentList (part_000:50-59).
handleRetry(j, id) ==
    /\ clicks < MaxClicks
    /\ id \in SegIds(projects[j].segments)
    /\ SegOf(projects[j].segments, id).status = "ERROR"
    /\ Len(timers) < MaxTimers
    /\ projects' = [projects EXCEPT ![j].segments =
                      [i \in 1..Len(@) |->
                          IF @[i].id = id
                          THEN [@[i] EXCEPT !.status = "IDLE", !.error = Undefined]
                          ELSE @[i]]]
    /\ timers' = Append(timers, [job |-> j, id |-> id, snap |-> Snapshot(projects[j])])
    /\ UNCHANGED <<stopSignalsRef, runs, nextId, apiKeys, envApiKey, exportUnits, exportOut, textVars>>
    /\ clicks' = clicks + 1
    /\ UNCHANGED failures

\* The segments of a sequence in the opposite order.
ReverseSegments(segs) == [i \in 1..Len(segs) |-> segs[Len(segs) + 1 - i]]

\* The rest of the list coming out back to front.
RemoveSegmentReversing(segs, id) ==
    ReverseSegments(SelectSeq(segs, LAMBDA s : s.id # id))

\* App.tsx:386
RemoveSegment(segs, id) == SelectSeq(segs, LAMBDA s : s.id # id)

\* App.tsx:384-389
handleDeleteSegment(j, id) ==
    /\ clicks < MaxClicks
    /\ id \in SegIds(projects[j].segments)
    /\ projects' = [projects EXCEPT ![j].segments = RemoveSegment(@, id)]
    /\ UNCHANGED <<stopSignalsRef, runs, timers, nextId, apiKeys, envApiKey, exportUnits, exportOut, textVars>>
    /\ clicks' = clicks + 1
    /\ UNCHANGED failures

\* App.tsx:213-258: n new idle segments are appended.
handleChunkText(j, n) ==
    /\ nextId + n - 1 <= MaxUnits
    /\ projects' = [projects EXCEPT ![j].segments =
                      @ \o [i \in 1..n |-> NewSegment(nextId + i - 1)]]
    /\ nextId' = nextId + n
    /\ UNCHANGED <<stopSignalsRef, runs, timers, apiKeys, envApiKey, exportUnits, exportOut, textVars, clicks, failures>>

\* One task of run r settles, and the run goes on as far as its next await.
Settle(r, u, outcome) ==
    LET j == runs[r].job
        stop == stopSignalsRef[j]
        st1 == CommitOutcome([p |-> projects[j], r |-> runs[r]], u, outcome, stop)
        st2 == [st1 EXCEPT !.r.task = [x \in DOMAIN @ \ {u} |-> @[x]]]
        st3 == Resume(st2, stop)
    IN /\ projects' = [projects EXCEPT ![j] = st3.p]
       /\ runs' = [runs EXCEPT ![r] = st3.r]

Calling(r, u) ==
    /\ r \in 1..Len(runs)
    /\ u \in executing(runs[r])
    /\ runs[r].task[u].phase = "calling"

\* geminiService.ts:60-81: the remote call of the current attempt returns audio.
RemoteSuccess(r, u) ==
    /\ Calling(r, u)
    /\ Settle(r, u, [ok |-> TRUE, audioUrl |-> <<r, u, runs[r].task[u].attempt>>])
    /\ UNCHANGED <<stopSignalsRef, timers, nextId, apiKeys, envApiKey, exportUnits, exportOut, textVars, clicks, failures>>

\* The retry loop giving up one attempt early.
RetriesLeftOffByOne(attempt) == attempt < maxRetries - 1

\* geminiService.ts:58 and 88, with attempts counted from 1.
RetriesLeft(attempt) == attempt < maxRetries

\* geminiService.ts:83-120: the remote call of the current attempt fails with m.
RemoteFailure(r, u, m) ==
    /\ failures < MaxFailures
    /\ Calling(r, u)
    /\ LET t == runs[r].task[u] IN
       IF RetriesLeft(t.attempt)
       THEN /\ runs' = [runs EXCEPT ![r].task[u] =
                          [t EXCEPT !.phase = "backoff", !.lastError = <<m, t.attempt>>]]
            /\ UNCHANGED projects
       ELSE Settle(r, u, [ok |-> FALSE,
                          message |-> <<NormalizeErrorMessage(m), t.attempt>>])
    /\ UNCHANGED <<stopSignalsRef, timers, nextId, apiKeys, envApiKey, exportUnits, exportOut, textVars, clicks>>
    /\ failures' = failures + 1

\* The next attempt taking the next key of the pool and moving the cursor.
BackoffExpireRotating(r, u) ==
    /\ r \in 1..Len(runs)
    /\ u \in executing(runs[r])
    /\ runs[r].task[u].phase = "backoff"
    /\ runs' = [runs EXCEPT ![r].task[u].phase = "calling",
                            ![r].task[u].attempt = @ + 1,
                            ![r].task[u].key = EffectiveKey(KeyToUse(runs[r].keyIndex)),
                            ![r].keyIndex = IF Len(apiKeys) > 0 THEN @ + 1 ELSE @]
    /\ UNCHANGED <<projects, stopSignalsRef, timers, nextId, apiKeys, envApiKey, exportUnits, exportOut, textVars, clicks, failures>>

\* geminiService.ts:88-91 then 58-60: the backoff delay ends, the next attempt
\* makes its remote call.
BackoffExpire(r, u) ==
    /\ r \in 1..Len(runs)
    /\ u \in executing(runs[r])
    /\ runs[r].task[u].phase = "backoff"
    /\ runs' = [runs EXCEPT ![r].task[u].phase = "calling",
                            ![r].task[u].attempt = @ + 1]
    /\ UNCHANGED <<projects, stopSignalsRef, timers, nextId, apiKeys, envApiKey, exportUnits, exportOut, textVars, clicks, failures>>

\* The credentials a session starts with: none at all, or a pool of two keys.
Credentials ==
    { <<<<>>, Undefined>>,
      <<<< <<"k1">>, <<"k2">> >>, Undefined>> }

\* No export asked for: nothing alerted, nothing downloaded.
NoExport ==
    [clicked |-> FALSE, alert |-> "", download |-> Undefined,
     hasExported |-> FALSE, isExporting |-> FALSE]

\* The queue as a session starts, with projects J and one of the credentials C.
QueueInit(J, C) ==
    /\ projects = [j \in J |-> createNewProject]
    /\ stopSignalsRef = [j \in J |-> FALSE]
    /\ runs = <<>>
    /\ timers = <<>>
    /\ nextId = 1
    /\ clicks = 0
    /\ failures = 0
    /\ \E c \in C : apiKeys = c[1] /\ envApiKey = c[2]

\* Nothing typed into the text box and nothing chunked from it.
NoText ==
    /\ inputText = <<>>
    /\ maxChunkLength = MaxChunkLength
    /\ segmentText = <<>>

\* The session as it starts.
InitWith(J, C) ==
    /\ QueueInit(J, C)
    /\ exportUnits = <<>>
    /\ exportOut = NoExport
    /\ NoText

Init == InitWith(ProjectIds, Credentials)

Next ==
    \/ \E j \in ProjectIds : GenerateAll(j)
    \/ RetryTimer
    \/ \E j \in ProjectIds : handleStop(j)
    \/ \E j \in ProjectIds : handleClearAll(j)
    \/ \E j \in ProjectIds, id \in UnitIds : handleRetry(j, id)
    \/ \E j \in ProjectIds, id \in UnitIds : handleDeleteSegment(j, id)
    \/ \E j \in ProjectIds, n \in 1..2 : handleChunkText(j, n)
    \/ \E r \in RunIds, u \in UnitIds : RemoteSuccess(r, u)
    \/ \E r \in RunIds, u \in UnitIds, m \in RemoteMessages : RemoteFailure(r, u, m)
    \/ \E r \in RunIds, u \in UnitIds : BackoffExpire(r, u)

Spec == Init /\ [][Next]_vars

(***************************************************************************)
(* The claims.                                                             *)
(***************************************************************************)
Segments(j) == projects[j].segments

Present(j, u) == u \in SegIds(Segments(j))

Seg(j, u) == SegOf(Segments(j), u)

ActiveRuns(j) == {r \in 1..Len(runs) : runs[r].job = j /\ runs[r].pc # "done"}

\* C1: within one run the number of synthesis tasks that are dispatched and
\* not yet resolved never exceeds 2, whatever the number of selected units and
\* the order in which the calls complete.
C1_ConcurrencyBound ==
    \A r \in 1..Len(runs) : Cardinality(executing(runs[r])) <= 2

\* A run of three units whose third unit was dispatched after one of the first
\* two calls completed, two calls being outstanding again.
C1_Witness ==
    \E r \in 1..Len(runs) :
        /\ Len(runs[r].sel) = 3
        /\ runs[r].idx = 4
        /\ Cardinality(executing(runs[r])) = 2

\* C2: at most one scheduling pass (a processQueue call that entered its loop
\* and has not yet made its final clear of isProcessing) is active per job.
C2_OnePassPerJob ==
    \A j \in ProjectIds : Cardinality(ActiveRuns(j)) <= 1

\* The task of unit u in run r leaves the run in this step and its outcome is
\* applied: the run's count of committed outcomes grows, or the unit's record
\* is rewritten to a final status.
OutcomeApplied(r, u) ==
    /\ r \in 1..Len(runs)
    /\ u \in executing(runs[r])
    /\ u \notin executing(runs'[r])
    /\ \/ runs'[r].completedCount > runs[r].completedCount
       \/ /\ u \in SegIds(projects[runs[r].job].segments)
          /\ u \in SegIds(projects'[runs[r].job].segments)
          /\ SegOf(projects'[runs[r].job].segments, u)
                # SegOf(projects[runs[r].job].segments, u)
       \/ projects'[runs[r].job].progress.current
                > projects[runs[r].job].progress.current

\* C3: a call that was outstanding when the job's stop signal was set never
\* has its outcome applied, whatever follows the stop.
C3_StoppedOutcomeDropped ==
    [][\A r \in RunIds, u \in UnitIds :
          (r <= Len(runs) /\ u \in executing(runs[r]) /\ runs[r].task[u].stopped)
              => ~OutcomeApplied(r, u)]_vars

Progressed(t2, t1) == t2.attempt # t1.attempt \/ t2.phase # t1.phase

\* C4: per dispatched unit at most 3 remote calls are made; when its call of
\* attempt k succeeds and no stop discards it, the task ends and the unit is
\* COMPLETED with the audio of attempt k; a failed attempt before the third
\* leaves the unit alone and is followed by a next attempt; when the third
\* attempt fails the unit is ERROR with the error text of the third attempt.
C4_RetryContract ==
    [][\A r \in RunIds, u \in UnitIds :
          (r <= Len(runs) /\ u \in executing(runs[r])) =>
              LET j == runs[r].job
                  t == runs[r].task[u]
                  gone == u \notin executing(runs'[r])
                  failed == failures' = failures + 1
              IN /\ t.attempt \in 1..3
                 /\ (~gone /\ Progressed(runs'[r].task[u], t) /\ t.phase = "calling") =>
                        /\ failed
                        /\ t.attempt < 3
                        /\ runs'[r].task[u].phase = "backoff"
                        /\ runs'[r].task[u].attempt = t.attempt
                        /\ projects' = projects
                 /\ (~gone /\ Progressed(runs'[r].task[u], t) /\ t.phase = "backoff") =>
                        /\ runs'[r].task[u].phase = "calling"
                        /\ runs'[r].task[u].attempt = t.attempt + 1
                 /\ (gone /\ ~stopSignalsRef[j] /\ Present(j, u)) =>
                        /\ t.phase = "calling"
                        /\ IF failed
                           THEN /\ t.attempt = 3
                                /\ SegOf(projects'[j].segments, u).status = "ERROR"
                                /\ \E m \in RemoteMessages :
                                      SegOf(projects'[j].segments, u).error
                                          = <<NormalizeErrorMessage(m), 3>>
                           ELSE /\ SegOf(projects'[j].segments, u).status = "COMPLETED"
                                /\ SegOf(projects'[j].segments, u).audioUrl
                                      = <<r, u, t.attempt>>]_vars

\* A unit that is ERROR with the text of a third attempt, beside a unit that
\* is COMPLETED with the audio of a third attempt.
C4_Witness ==
    \E j \in ProjectIds, u, v \in UnitIds :
        /\ Present(j, u) /\ Present(j, v)
        /\ Seg(j, u).status = "ERROR"
        /\ Seg(j, u).error # Undefined
        /\ Seg(j, u).error[2] = 3
        /\ Seg(j, v).status = "COMPLETED"
        /\ Seg(j, v).audioUrl # Undefined
        /\ Seg(j, v).audioUrl[3] \in 2..3

\* Every remote call returns and every timer fires.
RemoteReturn(r, u) ==
    RemoteSuccess(r, u) \/ \E m \in RemoteMessages : RemoteFailure(r, u, m)

Fairness ==
    /\ \A r \in RunIds, u \in UnitIds :
          WF_vars(RemoteReturn(r, u)) /\ WF_vars(BackoffExpire(r, u))
    /\ WF_vars(RetryTimer)

\* The same program with smaller budgets, for the properties of whole
\* behaviours.
FairNext ==
    /\ Next
    /\ Len(runs') <= FairMaxRuns
    /\ clicks' <= FairMaxClicks
    /\ failures' <= FairMaxFailures

FairSpec == Init /\ [][FairNext]_vars /\ Fairness

\* Run r makes its final clear of isProcessing in this step.
Returns(r) ==
    r <= Len(runs) /\ runs[r].pc # "done" /\ runs'[r].pc = "done"

\* Unit u is selected by run r and its task has not settled: it waits for a
\* free slot or its synthesis is outstanding.
Pending(r, u) ==
    /\ r <= Len(runs)
    /\ \/ u \in executing(runs[r])
       \/ \E i \in runs[r].idx..Len(runs[r].sel) : runs[r].sel[i] = u

\* C5: in a run that is never stopped, with every remote call returning, every
\* selected unit is dispatched and reaches COMPLETED or ERROR (unless the user
\* removes it), whatever the outcomes of the other units.
C5_FailureDoesNotBlockOthers ==
    /\ \A r \in RunIds, u \in UnitIds :
          Pending(r, u) ~>
              (r <= Len(runs) /\
                 \/ runs[r].stopped
                 \/ ~Present(runs[r].job, u)
                 \/ Seg(runs[r].job, u).status \in {"COMPLETED", "ERROR"})
    /\ [][\A r \in RunIds :
             (Returns(r) /\ ~runs[r].stopped) => runs[r].idx > Len(runs[r].sel)]_vars

\* A run that was not stopped, whose first unit failed for good and whose
\* last unit, dispatched later, is completed.
C5_Witness ==
    \E r \in 1..Len(runs) :
        LET j == runs[r].job
            sel == runs[r].sel
        IN /\ ~runs[r].stopped
           /\ Len(sel) >= 2
           /\ Present(j, sel[1]) /\ Seg(j, sel[1]).status = "ERROR"
           /\ Present(j, sel[Len(sel)]) /\ Seg(j, sel[Len(sel)]).status = "COMPLETED"

\* C6: every run that entered its loop returns, and the step in which it
\* returns is the settling of its last outstanding task and leaves the job
\* with isProcessing = FALSE and progress 0/0.
C6_RunTerminates ==
    /\ \A r \in RunIds :
          (r <= Len(runs)) ~> (r <= Len(runs) /\ runs[r].pc = "done")
    /\ [][\A r \in RunIds :
             /\ Returns(r) =>
                   /\ Cardinality(executing(runs[r])) = 1
                   /\ ~projects'[runs[r].job].isProcessing
                   /\ projects'[runs[r].job].progress = [current |-> 0, total |-> 0]
             /\ (r = Len(runs) + 1 /\ r = Len(runs') /\ runs'[r].pc = "done") =>
                   /\ ~projects'[runs'[r].job].isProcessing
                   /\ projects'[runs'[r].job].progress = [current |-> 0, total |-> 0]]_vars

\* A returned run that was not the only one, with a completed unit, the job
\* idle and its progress 0/0.
C6_Witness ==
    \E r \in 1..Len(runs) :
        /\ runs[r].pc = "done"
        /\ ~projects[runs[r].job].isProcessing
        /\ projects[runs[r].job].progress = [current |-> 0, total |-> 0]
        /\ \E u \in UnitIds :
              Present(runs[r].job, u) /\ Seg(runs[r].job, u).status = "COMPLETED"

\* C7: after a stop issued before any dispatched task of the run resolved, no
\* unit of that run becomes COMPLETED or ERROR, and the run returns with
\* progress 0/0.
C7_EarlyStopDiscardsAll ==
    [][\A r \in RunIds, u \in UnitIds :
          (r <= Len(runs) /\ runs[r].stoppedEarly /\ InSeq(runs[r].sel, u)) =>
              LET j == runs[r].job IN
              /\ (Present(j, u) /\ u \in SegIds(projects'[j].segments)) =>
                    \/ SegOf(projects'[j].segments, u).status = Seg(j, u).status
                    \/ SegOf(projects'[j].segments, u).status
                          \notin {"COMPLETED", "ERROR"}
              /\ Returns(r) =>
                    projects'[j].progress = [current |-> 0, total |-> 0]]_vars

\* C8: a unit has a result exactly when it is COMPLETED, an error message
\* exactly when it is ERROR, and never both.
C8_ResultErrorInvariant ==
    \A j \in ProjectIds : \A i \in 1..Len(Segments(j)) :
        LET s == Segments(j)[i] IN
        /\ (s.audioUrl # Undefined) <=> (s.status = "COMPLETED")
        /\ (s.error # Undefined) <=> (s.status = "ERROR")
        /\ ~(s.audioUrl # Undefined /\ s.error # Undefined)

\* One change of status the state machine allows.
StatusStep(a, b) ==
    \/ a \in {"IDLE", "QUEUED"} /\ b = "PROCESSING"
    \/ a = "PROCESSING" /\ b \in {"COMPLETED", "ERROR"}
    \/ a = "ERROR" /\ b \in {"IDLE", "QUEUED"}

\* C9: every change of a unit's status is IDLE/QUEUED -> PROCESSING,
\* PROCESSING -> COMPLETED, PROCESSING -> ERROR or ERROR -> IDLE/QUEUED.  A
\* unit marked and rejected within one task (no credential) makes two such
\* changes at once.
C9_StatusTransitions ==
    [][\A j \in ProjectIds, u \in UnitIds :
          (Present(j, u) /\ u \in SegIds(projects'[j].segments)) =>
              LET a == Seg(j, u).status
                  b == SegOf(projects'[j].segments, u).status
              IN \/ a = b
                 \/ StatusStep(a, b)
                 \/ StatusStep(a, "PROCESSING") /\ StatusStep("PROCESSING", b)]_vars

\* C10: the retry of an ERROR unit of a job that is not running returns the
\* unit to IDLE without error message, and the scheduler call it makes,
\* nothing else having happened in between, dispatches the unit: the unit is
\* PROCESSING with a synthesis call outstanding, or was rejected for want of a
\* credential.
C10_RetryDispatches ==
    [][(/\ timers # <<>>
        /\ timers' = Tail(timers)
        /\ ~Head(timers).snap.isProcessing
        /\ Snapshot(projects[Head(timers).job]) =
              [Head(timers).snap EXCEPT !.segments =
                  [i \in 1..Len(@) |->
                      IF @[i].id = Head(timers).id
                      THEN [@[i] EXCEPT !.status = "IDLE"] ELSE @[i]]]
       )
       => LET j == Head(timers).job
              u == Head(timers).id
              s == SegOf(projects'[j].segments, u)
          IN \/ /\ s.status = "PROCESSING"
                /\ \E r \in 1..Len(runs') : u \in executing(runs'[r])
             \/ /\ s.status = "ERROR"
                /\ s.error = <<CredentialMissingMessage, 0>>]_vars

\* The units of job j that a task's outcome moves to COMPLETED or ERROR in
\* this step.
FinalCommits(j) ==
    {u \in UnitIds :
        /\ Present(j, u)
        /\ u \in SegIds(projects'[j].segments)
        /\ SegOf(projects'[j].segments, u).status # Seg(j, u).status
        /\ SegOf(projects'[j].segments, u).status \in {"COMPLETED", "ERROR"}}

\* C11: while a run is under way, progress.current advances exactly by the
\* outcomes that are committed to a unit: in a step in which no run starts or
\* returns, its increase is the number of units moved to COMPLETED or ERROR.
C11_ProgressAccounting ==
    [][\A j \in ProjectIds :
          (Len(runs') = Len(runs) /\ ActiveRuns(j)' = ActiveRuns(j)) =>
              projects'[j].progress.current - projects[j].progress.current
                  = Cardinality(FinalCommits(j))]_vars

\* The place of unit u in the job's list, and in a selection.
JobPos(j, u) == CHOOSE i \in 1..Len(Segments(j)) : Segments(j)[i].id = u

SelPos(sel, u) == CHOOSE i \in 1..Len(sel) : sel[i] = u

\* C12: within one run the first synthesis calls are issued in the job's
\* order of the selected units, whatever the order in which earlier calls
\* completed: the calls issued so far are the head of the selection, in its
\* order, and the selection follows the order of the job's list.
C12_DispatchOrder ==
    \A r \in 1..Len(runs) :
        LET sel == runs[r].sel
            calls == runs[r].calls
            j == runs[r].job
        IN /\ \A a \in 1..Len(calls) : calls[a] = sel[a]
           /\ Len(calls) = runs[r].idx - 1 \/ Len(calls) = 0
           /\ \A i, k \in 1..Len(sel) :
                 (i < k /\ Present(j, sel[i]) /\ Present(j, sel[k])) =>
                     JobPos(j, sel[i]) < JobPos(j, sel[k])

\* Three calls issued by one run, the second of them completed before the
\* first, which is still outstanding beside the third.
C12_Witness ==
    \E r \in 1..Len(runs) :
        /\ Len(runs[r].calls) = 3
        /\ executing(runs[r]) = {runs[r].calls[1], runs[r].calls[3]}
        /\ Present(runs[r].job, runs[r].calls[2])
        /\ Seg(runs[r].job, runs[r].calls[2]).status = "COMPLETED"

\* Sessions with every shape of credentials: no pool with the ambient key,
\* pools of one, two and three keys, with and without an ambient key.
KeyCredentials ==
    { <<<<>>, Undefined>>,
      <<<<>>, <<"env">>>>,
      <<<< <<"k1">> >>, <<"env">>>>,
      <<<< <<"k1">>, <<"k2">> >>, Undefined>>,
      <<<< <<"k1">>, <<"k2">>, <<"k3">> >>, <<"env">>>> }

KeyInit == InitWith(ProjectIds, KeyCredentials)

KeyNext ==
    /\ Next
    /\ Len(runs') <= KeyMaxRuns
    /\ clicks' <= KeyMaxClicks
    /\ failures' <= KeyMaxFailures

KeySpec == KeyInit /\ [][KeyNext]_vars

\* The loop iterations of run r that were given pool entry s.
AssignedTo(r, s) == {k \in 1..Len(runs[r].keys) : runs[r].keys[k] = apiKeys[s]}

\* C13: with a pool of P > 0 keys the k-th unit dispatched by a run (k from
\* 0) is given credentials[k mod P] and the cursor has advanced once per
\* dispatch, so the numbers of units given to two pool entries differ by at
\* most 1; with an empty pool no key is passed and the call uses the ambient
\* key.  An outstanding call holds the credential its dispatch was given.
C13_KeyRotation ==
    \A r \in 1..Len(runs) :
        LET keys == runs[r].keys
            P == Len(apiKeys)
        IN /\ \A k \in 1..Len(keys) :
                 keys[k] = IF P > 0 THEN apiKeys[((k - 1) % P) + 1] ELSE Undefined
           /\ runs[r].keyIndex = IF P > 0 THEN Len(keys) ELSE 0
           /\ \A s1, s2 \in 1..P :
                 Cardinality(AssignedTo(r, s1)) - Cardinality(AssignedTo(r, s2)) <= 1
           /\ \A u \in executing(runs[r]) :
                 runs[r].task[u].key =
                    IF P > 0 THEN keys[SelPos(runs[r].sel, u)] ELSE envApiKey

\* A run over a pool of two keys whose third dispatch wrapped around to the
\* first key, its call outstanding.
C13_Witness ==
    \E r \in 1..Len(runs) :
        /\ Len(apiKeys) = 2
        /\ runs[r].keys = <<apiKeys[1], apiKeys[2], apiKeys[1]>>
        /\ runs[r].sel[3] \in executing(runs[r])
        /\ runs[r].task[runs[r].sel[3]].key = apiKeys[1]

\* The units of job j that are IDLE or QUEUED.
PendingUnits(j) ==
    {u \in UnitIds : Present(j, u) /\ Seg(j, u).status \in {"IDLE", "QUEUED"}}

SelSet(sel) == {sel[i] : i \in 1..Len(sel)}

\* C14: the step that starts a run selects exactly the units that are IDLE or
\* QUEUED at that moment, marks them PROCESSING with the error cleared, leaves
\* the other units alone and sets progress.total to the size of the
\* selection; while the run is under way and not stopped its selection and
\* progress.total do not change, and it issues calls for units of its
\* selection only.
C14_SelectionFixedAtStart ==
    [][\A r \in RunIds :
          /\ (r = Len(runs) + 1 /\ Len(runs') = r /\ runs'[r].pc # "done") =>
                LET j == runs'[r].job
                    sel == SelSet(runs'[r].sel)
                IN /\ sel = PendingUnits(j)
                   /\ projects'[j].progress.total = Cardinality(sel)
                   /\ \A u \in sel :
                         /\ SegOf(projects'[j].segments, u).status = "PROCESSING"
                         /\ SegOf(projects'[j].segments, u).error = Undefined
                   /\ \A u \in UnitIds \ sel :
                         Present(j, u) =>
                            /\ u \in SegIds(projects'[j].segments)
                            /\ SegOf(projects'[j].segments, u) = Seg(j, u)
          /\ (r <= Len(runs) /\ runs[r].pc # "done" /\ runs'[r].pc # "done"
                /\ ~runs'[r].stopped) =>
                /\ runs'[r].sel = runs[r].sel
                /\ projects'[runs[r].job].progress.total
                       = projects[runs[r].job].progress.total
                /\ SelSet(runs'[r].calls) \subseteq SelSet(runs[r].sel)]_vars

\* C15: a start request made while the job's isProcessing flag is set changes
\* nothing: no unit, not the flag, not the progress, not the stop signal, and
\* no call is dispatched.  The start requests a running job can receive are
\* those of the retry timer.
C15_StartWhileRunningIsNoOp ==
    [][(/\ timers # <<>>
        /\ timers' = Tail(timers)
        /\ projects[Head(timers).job].isProcessing)
       => UNCHANGED <<projects, stopSignalsRef, runs>>]_vars

\* C16: a start request for a job that is not running and has no IDLE or
\* QUEUED unit changes no unit, dispatches no call and leaves the job not
\* running with progress 0/0.
C16_EmptyStartIsNoOp ==
    [][\A j \in ProjectIds :
          (/\ ~projects[j].isProcessing
           /\ PendingUnits(j) = {}
           /\ \/ GenerateAll(j)
              \/ RetryTimer /\ Head(timers).job = j)
          => /\ projects'[j].segments = projects[j].segments
             /\ runs' = runs
             /\ ~projects'[j].isProcessing
             /\ projects'[j].progress = [current |-> 0, total |-> 0]]_vars

\* A session in which a second project was opened (handleAddProject,
\* App.tsx:133-137) before any text was chunked.
TwoJobs == {1, 2}

TwoInit == InitWith(TwoJobs, Credentials)

TwoNext ==
    /\ \/ \E j \in TwoJobs : GenerateAll(j)
       \/ RetryTimer
       \/ \E j \in TwoJobs : handleStop(j)
       \/ \E j \in TwoJobs : handleClearAll(j)
       \/ \E j \in TwoJobs, id \in UnitIds : handleRetry(j, id)
       \/ \E j \in TwoJobs, id \in UnitIds : handleDeleteSegment(j, id)
       \/ \E j \in TwoJobs, n \in 1..2 : handleChunkText(j, n)
       \/ \E r \in RunIds, u \in UnitIds : RemoteSuccess(r, u)
       \/ \E r \in RunIds, u \in UnitIds, m \in RemoteMessages : RemoteFailure(r, u, m)
       \/ \E r \in RunIds, u \in UnitIds : BackoffExpire(r, u)
    /\ Len(runs') <= TwoMaxRuns
    /\ clicks' <= TwoMaxClicks
    /\ failures' <= TwoMaxFailures

TwoJobSpec == TwoInit /\ [][TwoNext]_vars

\* This step is an action on job a: a start, a stop, a clear-all, a retry, a
\* removal, a chunking, the retry timer of a, or the return of a remote call
\* or the end of a back-off of one of a's runs (with the commit and the run
\* completion that follow it).
ActsOn(a) ==
    \/ GenerateAll(a)
    \/ handleStop(a)
    \/ handleClearAll(a)
    \/ \E id \in UnitIds : handleRetry(a, id)
    \/ \E id \in UnitIds : handleDeleteSegment(a, id)
    \/ \E n \in 1..2 : handleChunkText(a, n)
    \/ (timers # <<>> /\ Head(timers).job = a /\ RetryTimer)
    \/ \E r \in 1..Len(runs), u \in UnitIds :
          /\ runs[r].job = a
          /\ \/ RemoteSuccess(r, u)
             \/ \E m \in RemoteMessages : RemoteFailure(r, u, m)
             \/ BackoffExpire(r, u)

\* C17: an action on job a leaves every other job b alone: b's units, its
\* isProcessing flag, its progress, its stop signal and its runs (with their
\* outstanding calls, which a stop of a therefore never discards); and each
\* run has a pool and a cursor of its own: it holds at most 2 calls, all for
\* units of its own job's selection, and its cursor counts its own dispatches.
C17_JobsIndependent ==
    /\ [](\A r \in 1..Len(runs) :
             /\ Cardinality(executing(runs[r])) <= CONCURRENCY_LIMIT
             /\ executing(runs[r]) \subseteq SelSet(runs[r].sel)
             /\ runs[r].keyIndex = IF Len(apiKeys) > 0 THEN Len(runs[r].keys) ELSE 0)
    /\ [][\A a, b \in DOMAIN projects :
             (a # b /\ ActsOn(a)) =>
                 /\ projects'[b] = projects[b]
                 /\ stopSignalsRef'[b] = stopSignalsRef[b]
                 /\ \A r \in 1..Len(runs) : runs[r].job = b => runs'[r] = runs[r]
                 /\ Len(runs') > Len(runs) => runs'[Len(runs')].job = a]_vars

\* Two jobs running side by side with three calls outstanding between them,
\* one job stopped and the other not.
C17_Witness ==
    \E ra, rb \in 1..Len(runs) :
        /\ runs[ra].job # runs[rb].job
        /\ runs[ra].pc # "done" /\ runs[rb].pc # "done"
        /\ Cardinality(executing(runs[ra])) + Cardinality(executing(runs[rb])) = 3
        /\ runs[ra].stopped /\ stopSignalsRef[runs[ra].job]
        /\ ~runs[rb].stopped /\ ~stopSignalsRef[runs[rb].job]

\* C18: the removal of a unit, whatever its status, takes exactly that unit
\* out of the list and leaves the other units, their fields and their order
\* as they were; and a unit that is gone stays gone: no later step, the return
\* of its outstanding call included, puts it back.
C18_DeleteRemovesExactlyOne ==
    [][\A j \in ProjectIds, u \in UnitIds :
          /\ handleDeleteSegment(j, u) =>
                /\ ~(u \in SegIds(projects'[j].segments))
                /\ Len(projects'[j].segments) = Len(Segments(j)) - 1
                /\ \A i \in 1..Len(projects'[j].segments) :
                      projects'[j].segments[i] =
                         Segments(j)[IF i < JobPos(j, u) THEN i ELSE i + 1]
          /\ (u < nextId /\ ~Present(j, u)) => ~(u \in SegIds(projects'[j].segments))]_vars

\* A unit removed while its call was outstanding: the call has returned, the
\* run goes on with another unit, and the list does not hold the removed unit.
C18_Witness ==
    \E r \in 1..Len(runs) :
        LET j == runs[r].job IN
        /\ runs[r].pc # "done"
        /\ ~runs[r].stopped
        /\ Len(runs[r].calls) >= 2
        /\ ~Present(j, runs[r].calls[1])
        /\ ~(runs[r].calls[1] \in executing(runs[r]))
        /\ runs[r].completedCount = 1
        /\ \A i \in 1..Len(Segments(j)) : Segments(j)[i].status = "PROCESSING"

(***************************************************************************)
(* Merge & Download: handleExportMerged (App.tsx:423-495) over the bytes   *)
(* of the units' containers, which createWavUrl                            *)
(* (geminiService.ts:127-170) built.  A buffer is a sequence of bytes; an  *)
(* object URL stands for the bytes of its blob.  Volumes are in tenths,    *)
(* the step of the sliders (App.tsx:824, part_000:118-121).                *)
(***************************************************************************)
HeaderSize == 44
ExportSampleRate == 24000

LE16(n) == <<n % 256, (n \div 256) % 256>>

LE32(n) ==
    <<n % 256, (n \div 256) % 256, (n \div 65536) % 256, (n \div 16777216) % 256>>

\* The header declaring the size of the whole file instead of the size of
\* what follows the first eight bytes.
createWavUrlWholeSize(samples, sampleRate) ==
    <<82, 73, 70, 70>> \o LE32(44 + Len(samples)) \o <<87, 65, 86, 69>>
    \o <<102, 109, 116, 32>> \o LE32(16) \o LE16(1) \o LE16(1)
    \o LE32(sampleRate) \o LE32(sampleRate * 2) \o LE16(2) \o LE16(16)
    \o <<100, 97, 116, 97>> \o LE32(Len(samples))
    \o samples

\* geminiService.ts:127-170: the RIFF/WAVE header followed by the samples.
createWavUrl(samples, sampleRate) ==
    <<82, 73, 70, 70>> \o LE32(36 + Len(samples)) \o <<87, 65, 86, 69>>
    \o <<102, 109, 116, 32>> \o LE32(16) \o LE16(1) \o LE16(1)
    \o LE32(sampleRate) \o LE32(sampleRate * 2) \o LE16(2) \o LE16(16)
    \o <<100, 97, 116, 97>> \o LE32(Len(samples))
    \o samples

\* One byte of the header left in front of the samples.
StripHeaderOffByOne(container) == SubSeq(container, HeaderSize, Len(container))

\* App.tsx:443: arrayBuffer.slice(44)
StripHeader(container) == SubSeq(container, HeaderSize + 1, Len(container))

\* The k-th element of an Int16Array over the bytes of raw (little-endian).
Int16At(raw, k) ==
    LET w == raw[2 * k - 1] + 256 * raw[2 * k]
    IN IF w >= 32768 THEN w - 65536 ELSE w

\* The integer part of a / b, b > 0: what storing a number into an
\* Int16Array keeps of it.
TruncDiv(a, b) == IF a >= 0 THEN a \div b ELSE -((-a) \div b)

\* App.tsx:449: the product view[i] * volume is taken in binary floating
\* point, and the volume tenths / 10 is the double nearest to it.  The double
\* for 0.7 and the one for 1.4 lie below the decimal, and the rounded product
\* lands just under an exact whole number q = mag / 10 exactly when q lies in
\* the upper eighth of its power-of-two interval; with every other volume of
\* the sliders a whole product comes out whole.
FloatFallsShort(mag, tenths) ==
    /\ tenths \in {7, 14}
    /\ mag % 10 = 0
    /\ \E m \in 0..16 : (mag \div 10) < 2^m /\ (mag \div 10) * 8 > 7 * 2^m

\* The product stored without the two limits: the Int16Array keeps its low
\* sixteen bits.
ScaleSampleWrapping(v, tenths) ==
    LET num == v * tenths
    IN IF num >= 0 THEN num \div 10 ELSE -((-num) \div 10)

\* App.tsx:449-452 for one sample, the volume being tenths / 10: the product,
\* the two limits, and the store into the Int16Array, which keeps the integer
\* part.
ScaleSample(v, tenths) ==
    LET num == v * tenths
        mag == IF num >= 0 THEN num ELSE -num
        kept == IF FloatFallsShort(mag, tenths)
                THEN (mag \div 10) - 1
                ELSE TruncDiv(mag, 10)
    IN IF num > 32767 * 10 THEN 32767
       ELSE IF num < -32768 * 10 THEN -32768
       ELSE IF num >= 0 THEN kept ELSE -kept

\* App.tsx:447-453: the samples scaled in place; a last odd byte is outside
\* the Int16Array and stays.
ScaleBuffer(raw, tenths) ==
    [i \in 1..Len(raw) |->
        IF i > 2 * (Len(raw) \div 2)
        THEN raw[i]
        ELSE LET w == ScaleSample(Int16At(raw, (i + 1) \div 2), tenths) % 65536
             IN IF i % 2 = 1 THEN w % 256 ELSE w \div 256]

\* App.tsx:446
NeedsScaling(tenths) == tenths # 10

\* The buffer put in front of the list instead of behind it.
PushBufferInFront(buffers, raw) == <<raw>> \o buffers

\* App.tsx:455
PushBuffer(buffers, raw) == Append(buffers, raw)

\* App.tsx:424
completedSegments(units) ==
    SelectSeq(units, LAMBDA s : s.status = "COMPLETED" /\ s.audioUrl # Undefined)

\* The answer of a fetch that fails: no bytes at all.
Unavailable == <<-1>>

\* App.tsx:436-458: the loop over the completed segments, from the i-th on.
RECURSIVE CollectBuffers(_, _, _)
CollectBuffers(segs, i, buffers) ==
    IF i > Len(segs)
    THEN buffers
    ELSE LET arrayBuffer == segs[i].blob
         IN IF Len(arrayBuffer) > HeaderSize
            THEN LET rawData == StripHeader(arrayBuffer)
                     scaled == IF NeedsScaling(segs[i].volume)
                               THEN ScaleBuffer(rawData, segs[i].volume)
                               ELSE rawData
                 IN CollectBuffers(segs, i + 1, PushBuffer(buffers, scaled))
            ELSE CollectBuffers(segs, i + 1, buffers)

\* App.tsx:466-471
RECURSIVE Concat(_)
Concat(buffers) ==
    IF buffers = <<>> THEN <<>> ELSE Head(buffers) \o Concat(Tail(buffers))

NothingToExportMessage == "No audio generated yet to export."
NoValidAudioMessage == "No valid audio data to export."
MergeFailedMessage == "Failed to merge audio files."

\* App.tsx:423-495: the whole handler, its fetches included.
ExportMerged(units, out) ==
    LET segs == completedSegments(units)
        done == [out EXCEPT !.clicked = TRUE, !.isExporting = FALSE]
    IN IF Len(segs) = 0
       THEN [done EXCEPT !.alert = NothingToExportMessage]
       ELSE IF \E i \in 1..Len(segs) : segs[i].blob = Unavailable
       THEN [done EXCEPT !.alert = MergeFailedMessage]
       ELSE LET mergedBuffer == Concat(CollectBuffers(segs, 1, <<>>))
            IN IF Len(mergedBuffer) = 0
               THEN [done EXCEPT !.alert = NoValidAudioMessage]
               ELSE [done EXCEPT
                       !.download = createWavUrl(mergedBuffer, ExportSampleRate),
                       !.hasExported = TRUE]

handleExportMerged ==
    /\ ~exportOut.clicked
    /\ exportOut' = ExportMerged(exportUnits, exportOut)
    /\ UNCHANGED <<projects, stopSignalsRef, runs, timers, nextId, apiKeys, envApiKey,
                   clicks, failures, exportUnits, textVars>>

\* The sample buffers a synthesis can have returned: none at all, an odd
\* byte, the largest and the smallest sample, 3 and -3, an odd length, two
\* samples.
SampleBuffers ==
    { <<>>, <<1>>, <<255, 127>>, <<0, 128>>, <<3, 0>>, <<253, 255>>,
      <<3, 0, 7>>, <<1, 0, 255, 255>> }

ExportVolumes == {0, 5, 10, 15, 20}

\* The segments a project can hold at the click: completed ones with their
\* container, which may have become unavailable, at any volume; idle ones;
\* and ones set back to PROCESSING that still hold an earlier result.
ExportSegments ==
    { [status |-> "COMPLETED", audioUrl |-> <<"blob">>, volume |-> v, blob |-> b] :
        v \in ExportVolumes,
        b \in {createWavUrl(x, ExportSampleRate) : x \in SampleBuffers} \cup {Unavailable} }
    \cup { [status |-> "IDLE", audioUrl |-> Undefined, volume |-> 10, blob |-> Unavailable],
           [status |-> "PROCESSING", audioUrl |-> <<"blob">>, volume |-> 5,
            blob |-> createWavUrl(<<3, 0>>, ExportSampleRate)] }

RECURSIVE SeqsUpTo(_, _)
SeqsUpTo(S, n) ==
    IF n = 0 THEN {<<>>}
    ELSE LET shorter == SeqsUpTo(S, n - 1)
         IN shorter \cup {Append(q, x) : q \in shorter, x \in S}

MergeInit ==
    /\ QueueInit(ProjectIds, {<<<<>>, Undefined>>})
    /\ exportUnits \in SeqsUpTo(ExportSegments, MaxExportUnits)
    /\ exportOut = NoExport
    /\ NoText

MergeNext == handleExportMerged

MergeSpec == MergeInit /\ [][MergeNext]_vars

\* What the claim calls the header-stripped samples of a unit, scaled by its
\* gain when the gain is not 1.0.
Contribution(s) ==
    IF s.status # "COMPLETED" THEN <<>>
    ELSE IF s.volume # 10
    THEN ScaleBuffer(StripHeader(s.blob), s.volume)
    ELSE StripHeader(s.blob)

\* C19: the payload of the container merge hands out is the concatenation,
\* in the order of the list, of each COMPLETED unit's samples behind the 44
\* byte header, scaled by the unit's volume unless it is 1.0 and then byte
\* for byte as they are; the other units contribute nothing; and a container
\* is handed out whenever this payload is not empty.
C19_MergePayload ==
    (exportOut.clicked /\ \A i \in 1..Len(exportUnits) :
                              exportUnits[i].status = "COMPLETED"
                                  => exportUnits[i].blob # Unavailable)
    => LET expected == Concat([i \in 1..Len(exportUnits) |->
                                  Contribution(exportUnits[i])])
       IN /\ exportOut.download # Undefined =>
                /\ StripHeader(exportOut.download) = expected
                /\ exportOut.download = createWavUrl(expected, ExportSampleRate)
          /\ expected # <<>> => exportOut.download # Undefined

\* Merged: a unit at volume 1.0 followed by a unit at volume 0.5, both with
\* samples, in that order.
C19_Witness ==
    /\ exportOut.clicked
    /\ exportOut.download # Undefined
    /\ Len(exportUnits) = 2
    /\ exportUnits[1].status = "COMPLETED" /\ exportUnits[1].volume = 10
    /\ exportUnits[2].status = "COMPLETED" /\ exportUnits[2].volume = 5
    /\ StripHeader(exportUnits[1].blob) = <<1, 0, 255, 255>>
    /\ StripHeader(exportUnits[2].blob) = <<3, 0, 7>>
    /\ StripHeader(exportOut.download) = <<1, 0, 255, 255, 1, 0, 7>>

DoneUnits == {i \in 1..Len(exportUnits) : exportUnits[i].status = "COMPLETED"}

\* C20: merge fails with "nothing to export" exactly when no unit is
\* COMPLETED, and with "no valid audio" exactly when some unit is COMPLETED
\* and the container of every COMPLETED unit is smaller than the 44 byte
\* header; either way nothing is downloaded and the project is not marked as
\* exported.  Stated for containers that can all be retrieved.
C20_MergeFailures ==
    (exportOut.clicked /\ \A i \in DoneUnits : exportUnits[i].blob # Unavailable)
    => /\ (exportOut.alert = NothingToExportMessage) <=> (DoneUnits = {})
       /\ (exportOut.alert = NoValidAudioMessage) <=>
             /\ DoneUnits # {}
             /\ \A i \in DoneUnits : Len(exportUnits[i].blob) < HeaderSize
       /\ exportOut.alert \in {NothingToExportMessage, NoValidAudioMessage} =>
             /\ exportOut.download = Undefined
             /\ ~exportOut.hasExported

Retrievable == {i \in DoneUnits : exportUnits[i].blob # Unavailable}

\* C21: when the container of a COMPLETED unit cannot be retrieved, merge
\* leaves that unit out and still hands out a container whose payload is the
\* concatenation of what the other COMPLETED units contribute, whenever that
\* is not empty; it does not fail as a whole.
C21_UnretrievableSkipped ==
    (exportOut.clicked /\ Retrievable # DoneUnits)
    => LET expected == Concat([i \in 1..Len(exportUnits) |->
                                  IF i \in Retrievable
                                  THEN Contribution(exportUnits[i])
                                  ELSE <<>>])
       IN expected # <<>> =>
             /\ exportOut.download = createWavUrl(expected, ExportSampleRate)
             /\ exportOut.alert # MergeFailedMessage

\* The units of job j that this step moves to ERROR.
NewlyFailed(j) ==
    {u \in UnitIds :
        /\ Present(j, u)
        /\ u \in SegIds(projects'[j].segments)
        /\ Seg(j, u).status # "ERROR"
        /\ SegOf(projects'[j].segments, u).status = "ERROR"}

\* C22: a unit is marked ERROR only when the third attempt of its own
\* synthesis call has failed, whatever the kind of the failure (no
\* credential, call rejected, empty response), and the step that marks it
\* marks no other unit.
C22_EveryFailureRetried ==
    [][\A j \in ProjectIds :
          /\ Cardinality(NewlyFailed(j)) <= 1
          /\ \A u \in NewlyFailed(j) :
                /\ SegOf(projects'[j].segments, u).error # Undefined
                /\ SegOf(projects'[j].segments, u).error[2] = maxRetries
                /\ \E r \in 1..Len(runs) :
                      /\ u \in executing(runs[r])
                      /\ runs[r].task[u].attempt = maxRetries]_vars

\* ---------------------------------------------------------------------------
\* The codec and the volume scaling on their own: one unit whose synthesis
\* returned the bytes pcm, put into a container and merged at some volume.

\* The bytes of a sequence of 16-bit samples, little-endian.
RECURSIVE PcmOf(_)
PcmOf(vs) ==
    IF vs = <<>> THEN <<>> ELSE LE16(Head(vs) % 65536) \o PcmOf(Tail(vs))

\* Samples at the two ends of the range, around zero, and where the product
\* with 0.7 and 1.4 is a whole number.
SampleValues ==
    {-32768, -32767, -23400, -16384, -90, -9, -3, -1, 0, 1, 3, 7, 9, 90,
     16384, 23400, 23405, 32767}

PcmBuffers ==
    {PcmOf(<<v>>) : v \in SampleValues} \cup {<<>>, PcmOf(<<3, -3>>), <<3, 0, 7>>}

\* The positions of the volume sliders, in tenths (App.tsx: min 0, max 2,
\* step 0.1).
CodecVolumes == 0..20

SampleRates == {8000, ExportSampleRate, 44100}

\* geminiService.ts:81 and App.tsx:321-325: the bytes of the unit are put
\* into a container and the unit is COMPLETED.
EncodeContainer ==
    /\ Len(exportUnits) = 1
    /\ exportUnits[1].status = "PROCESSING"
    /\ exportUnits' = <<[exportUnits[1] EXCEPT
                            !.status = "COMPLETED",
                            !.audioUrl = <<"blob">>,
                            !.blob = createWavUrl(exportUnits[1].pcm, exportUnits[1].rate)]>>
    /\ UNCHANGED <<projects, stopSignalsRef, runs, timers, nextId, apiKeys, envApiKey,
                   clicks, failures, exportOut, textVars>>

CodecInit ==
    /\ QueueInit(ProjectIds, {<<<<>>, Undefined>>})
    /\ \E b \in PcmBuffers, g \in CodecVolumes, R \in SampleRates :
          exportUnits = <<[status |-> "PROCESSING", audioUrl |-> Undefined,
                           volume |-> g, blob |-> Unavailable, pcm |-> b, rate |-> R]>>
    /\ exportOut = NoExport
    /\ NoText

CodecNext == EncodeContainer \/ handleExportMerged

CodecSpec == CodecInit /\ [][CodecNext]_vars

\* The unit was put into its container and then merged.
Merged ==
    /\ exportUnits[1].status = "COMPLETED"
    /\ exportOut.clicked
    /\ exportOut.download # Undefined

\* The whole samples of the unit and of the merged container.
SamplesIn == Len(exportUnits[1].pcm) \div 2
SampleIn(k) == Int16At(exportUnits[1].pcm, k)
SampleOut(k) == Int16At(StripHeader(exportOut.download), k)

Clamp(n) == IF n > 32767 THEN 32767 ELSE IF n < -32768 THEN -32768 ELSE n

\* The integers nearest to num / 10; two of them when num / 10 lies half way.
Nearest(num) ==
    {n \in {num \div 10, (num \div 10) + 1} :
        10 * n - num <= 5 /\ num - 10 * n <= 5}

\* C23: a sample v merged at a volume g other than 1.0 comes out as v * g
\* rounded to the nearest integer (either neighbour when half way) and then
\* limited to -32768..32767.
C23_ScaledSampleRounded ==
    (Merged /\ exportUnits[1].volume # 10)
    => \A k \in 1..SamplesIn :
          SampleOut(k) \in
              {Clamp(n) : n \in Nearest(SampleIn(k) * exportUnits[1].volume)}

\* C24: whatever the volume, a merged sample lies in -32768..32767, a
\* product beyond either end comes out as that end, and no sample changes
\* its sign; merged at volume 1.0 the bytes are the unit's bytes; merged at
\* volume 0.0 every sample is zero.
C24_ScaleSaturates ==
    Merged
    => /\ \A k \in 1..SamplesIn :
             LET num == SampleIn(k) * exportUnits[1].volume
             IN /\ SampleOut(k) \in -32768..32767
                /\ num > 32767 * 10 => SampleOut(k) = 32767
                /\ num < -32768 * 10 => SampleOut(k) = -32768
                /\ SampleIn(k) >= 0 => SampleOut(k) >= 0
                /\ SampleIn(k) <= 0 => SampleOut(k) <= 0
       /\ exportUnits[1].volume = 10 =>
             StripHeader(exportOut.download) = exportUnits[1].pcm
       /\ exportUnits[1].volume = 0 =>
             \A k \in 1..SamplesIn : SampleOut(k) = 0

\* Merged: the largest sample at volume 2.0, which comes out as the largest
\* sample.
C24_Witness ==
    /\ Merged
    /\ exportUnits[1].pcm = PcmOf(<<32767>>)
    /\ exportUnits[1].volume = 20
    /\ StripHeader(exportOut.download) = <<255, 127>>

U16At(c, off) == c[off + 1] + 256 * c[off + 2]
U32At(c, off) == U16At(c, off) + 65536 * U16At(c, off + 2)

\* C26: the container made from L bytes at rate R has 44 + L bytes and a
\* header that declares linear PCM, the payload length L, the size 36 + L,
\* one channel, 16 bits per sample, the sample rate R, the byte rate 2R and
\* the block align 2, and the payload follows the header.
C26_ContainerHeader ==
    exportUnits[1].status = "COMPLETED"
    => LET c == exportUnits[1].blob
           L == Len(exportUnits[1].pcm)
           R == exportUnits[1].rate
       IN /\ Len(c) = HeaderSize + L
          /\ SubSeq(c, 1, 4) = <<82, 73, 70, 70>>
          /\ U32At(c, 4) = 36 + L
          /\ SubSeq(c, 9, 16) = <<87, 65, 86, 69, 102, 109, 116, 32>>
          /\ U16At(c, 20) = 1
          /\ U16At(c, 22) = 1
          /\ U32At(c, 24) = R
          /\ U32At(c, 28) = 2 * R
          /\ U16At(c, 32) = 2
          /\ U16At(c, 34) = 16
          /\ SubSeq(c, 37, 40) = <<100, 97, 116, 97>>
          /\ U32At(c, 40) = L
          /\ SubSeq(c, 45, Len(c)) = exportUnits[1].pcm

\* A container of three bytes at rate 8000: 47 bytes.
C26_Witness ==
    /\ exportUnits[1].status = "COMPLETED"
    /\ exportUnits[1].rate = 8000
    /\ exportUnits[1].pcm = <<3, 0, 7>>
    /\ Len(exportUnits[1].blob) = 47

\* ---------------------------------------------------------------------------
\* Chunking at the level of the text.  A text is a sequence of characters;
\* "danda" stands for the Bengali full stop, one UTF-16 unit like the others.

TerminalMarks == {"danda", "?", "!"}

\* The characters String.prototype.trim removes.
Whitespace == {" "}

\* App.tsx:218: .replace(/([danda?!])/g, "$1|")
RECURSIVE MarkSentenceEnds(_)
MarkSentenceEnds(text) ==
    IF text = <<>> THEN <<>>
    ELSE (IF Head(text) \in TerminalMarks THEN <<Head(text), "|">> ELSE <<Head(text)>>)
         \o MarkSentenceEnds(Tail(text))

\* App.tsx:219: .split("|"), piece being the part read since the last bar.
RECURSIVE SplitAtBars(_, _)
SplitAtBars(text, piece) ==
    IF text = <<>> THEN <<piece>>
    ELSE IF Head(text) = "|"
    THEN <<piece>> \o SplitAtBars(Tail(text), <<>>)
    ELSE SplitAtBars(Tail(text), Append(piece, Head(text)))

RECURSIVE TrimStart(_)
TrimStart(s) ==
    IF s # <<>> /\ Head(s) \in Whitespace THEN TrimStart(Tail(s)) ELSE s

RECURSIVE TrimEnd(_)
TrimEnd(s) ==
    IF s # <<>> /\ s[Len(s)] \in Whitespace
    THEN TrimEnd(SubSeq(s, 1, Len(s) - 1)) ELSE s

\* String.prototype.trim
trim(s) == TrimEnd(TrimStart(s))

\* App.tsx:217-221
rawSegments(text) ==
    LET pieces == SplitAtBars(MarkSentenceEnds(text), <<>>)
    IN SelectSeq([i \in 1..Len(pieces) |-> trim(pieces[i])], LAMBDA s : Len(s) > 0)

\* App.tsx:227
Fits(currentChunk, sentence, maxLength) ==
    Len(currentChunk) + Len(sentence) < maxLength

\* App.tsx:226-251: the forEach over the sentences and the push after it.
RECURSIVE Accumulate(_, _, _, _)
Accumulate(sentences, currentChunk, newSegments, maxLength) ==
    IF sentences = <<>>
    THEN IF currentChunk # <<>> THEN Append(newSegments, currentChunk) ELSE newSegments
    ELSE LET sentence == Head(sentences)
         IN IF Fits(currentChunk, sentence, maxLength)
            THEN Accumulate(Tail(sentences),
                            currentChunk
                              \o (IF currentChunk # <<>> THEN <<" ">> ELSE <<>>)
                              \o sentence,
                            newSegments, maxLength)
            ELSE Accumulate(Tail(sentences), sentence,
                            IF currentChunk # <<>>
                            THEN Append(newSegments, currentChunk)
                            ELSE newSegments,
                            maxLength)

\* App.tsx:217-251: the texts of the segments made from text.
ChunkText(text, maxLength) == Accumulate(rawSegments(text), <<>>, <<>>, maxLength)

\* App.tsx:213-258 with the text: nothing happens for a blank text box;
\* otherwise the new segments are appended and the text box is emptied.
ChunkInputText(j) ==
    /\ trim(inputText) # <<>>
    /\ LET newSegments == ChunkText(inputText, maxChunkLength)
           n == Len(newSegments)
       IN /\ projects' = [projects EXCEPT ![j].segments =
                            @ \o [i \in 1..n |-> NewSegment(nextId + i - 1)]]
          /\ nextId' = nextId + n
          /\ segmentText' = segmentText \o newSegments
    /\ inputText' = <<>>
    /\ exportOut' = [exportOut EXCEPT !.hasExported = FALSE]
    /\ UNCHANGED <<stopSignalsRef, runs, timers, apiKeys, envApiKey, clicks, failures,
                   exportUnits, maxChunkLength>>

\* What can be typed: letters, a space, the terminal marks and a bar.
TextAlphabet == {"a", "b", " ", "|"} \cup TerminalMarks

ChunkLimits == 2..MaxChunkLength

ChunkInit ==
    /\ QueueInit(ProjectIds, {<<<<>>, Undefined>>})
    /\ exportUnits = <<>>
    /\ exportOut = NoExport
    /\ inputText \in SeqsUpTo(TextAlphabet, MaxTextLen)
    /\ maxChunkLength \in ChunkLimits
    /\ segmentText = <<>>

ChunkNext == \E j \in ProjectIds : ChunkInputText(j)

ChunkSpec == ChunkInit /\ [][ChunkNext]_vars

\* The sentences of a text as the claims define them: cut after each
\* terminal mark, the mark staying with what precedes it; trimmed; the empty
\* ones dropped.
RECURSIVE CutAfterMarks(_, _)
CutAfterMarks(text, piece) ==
    IF text = <<>> THEN <<piece>>
    ELSE IF Head(text) \in TerminalMarks
    THEN <<Append(piece, Head(text))>> \o CutAfterMarks(Tail(text), <<>>)
    ELSE CutAfterMarks(Tail(text), Append(piece, Head(text)))

Sentences(text) ==
    LET pieces == CutAfterMarks(text, <<>>)
    IN SelectSeq([i \in 1..Len(pieces) |-> trim(pieces[i])], LAMBDA s : Len(s) > 0)

RECURSIVE SentencesOfAll(_)
SentencesOfAll(units) ==
    IF units = <<>> THEN <<>>
    ELSE Sentences(Head(units)) \o SentencesOfAll(Tail(units))

\* The step is a chunking of the text box.
Chunked == inputText' # inputText

\* The texts of the segments the step appends.
NewTexts == SubSeq(segmentText', Len(segmentText) + 1, Len(segmentText'))

\* C27: chunking loses and duplicates nothing: the sentences of the units it
\* makes, in order, are the sentences of the text, character for character.
C27_NothingLostOrDuplicated ==
    [][Chunked => SentencesOfAll(NewTexts) = Sentences(inputText)]_vars

\* C28: no unit is empty; a unit longer than the limit is exactly one
\* sentence of the text, whole; and a blank text yields no unit.
C28_UnitBounds ==
    [][/\ Chunked =>
             \A i \in 1..Len(NewTexts) :
                /\ Len(NewTexts[i]) > 0
                /\ Len(NewTexts[i]) > maxChunkLength =>
                      \E k \in 1..Len(Sentences(inputText)) :
                          NewTexts[i] = Sentences(inputText)[k]
       /\ trim(inputText) = <<>> => segmentText' = segmentText]_vars

\* C29: every unit made of two or more sentences is strictly shorter than
\* the limit.  Stated for texts without a bar.
C29_MultiSentenceUnitsShorter ==
    [][(Chunked /\ \A i \in 1..Len(inputText) : inputText[i] # "|")
       => \A i \in 1..Len(NewTexts) :
             Len(Sentences(NewTexts[i])) >= 2 => Len(NewTexts[i]) < maxChunkLength]_vars

\* C30: a run that has been stopped, its stop signal still raised, starts no
\* further remote call: it dispatches no further unit, and none of its tasks
\* goes from the back-off wait into another attempt.
C30_NoCallAfterStop ==
    [][\A r \in RunIds :
          (/\ r <= Len(runs)
           /\ runs[r].stopped
           /\ stopSignalsRef[runs[r].job]
           /\ stopSignalsRef'[runs[r].job])
          => /\ Len(runs'[r].calls) <= Len(runs[r].calls)
             /\ \A u \in executing(runs[r]) :
                   runs[r].task[u].phase = "backoff"
                   => ~(/\ u \in executing(runs'[r])
                        /\ runs'[r].task[u].phase = "calling")]_vars

\* The remote calls of job j that have been made and have not returned, over
\* all of its runs.
OutstandingCalls(j) ==
    {<<r, u>> \in (1..Len(runs)) \X UnitIds :
        /\ runs[r].job = j
        /\ u \in executing(runs[r])
        /\ runs[r].task[u].phase = "calling"}

\* C31: for every job the number of remote synthesis calls outstanding,
\* counted over all of its runs, the stopped ones included, never exceeds 2.
C31_JobConcurrencyBound ==
    \A j \in ProjectIds : Cardinality(OutstandingCalls(j)) <= CONCURRENCY_LIMIT

\* C32: in every reachable state of every job, 0 <= progress.current <=
\* progress.total.
C32_ProgressWithinTotal ==
    \A j \in ProjectIds :
        /\ 0 <= projects[j].progress.current
        /\ projects[j].progress.current <= projects[j].progress.total

\* C33: while a run is under way and its job has not been stopped since the
\* run started, the job's isProcessing is true.  In particular the return of
\* an earlier, stopped run must not clear it.
C33_RunningWhileActive ==
    \A r \in 1..Len(runs) :
        (runs[r].pc # "done" /\ ~runs[r].stopped)
        => projects[runs[r].job].isProcessing

\* The runs in which unit u has a synthesis task outstanding.
TasksOf(u) == {r \in 1..Len(runs) : u \in executing(runs[r])}

\* C34: no unit ever has two synthesis tasks outstanding at the same time;
\* and when a run that was not stopped returns, no remote call having failed,
\* it has made exactly one remote call per selected unit.
C34_OneTaskPerUnit ==
    [][/\ \A u \in UnitIds : Cardinality(TasksOf(u))' <= 1
       /\ \A r \in 1..Len(runs) :
             (/\ runs[r].pc # "done"
              /\ runs'[r].pc = "done"
              /\ ~runs[r].stopped
              /\ failures' = 0
              /\ EffectiveKey(KeyToUse(0)) # Undefined)
             => Len(runs[r].calls) = Len(runs[r].sel)]_vars

\* Unit u of job j is PROCESSING, has no synthesis task outstanding and
\* belongs to no run that is under way and has not been stopped: it was
\* marked by a run that was stopped, and its outcome was dropped or it was
\* never dispatched.
StoppedInFlight(j, u) ==
    /\ Present(j, u)
    /\ Seg(j, u).status = "PROCESSING"
    /\ TasksOf(u) = {}
    /\ \A r \in 1..Len(runs) :
          (runs[r].pc # "done" /\ InSeq(runs[r].sel, u)) => runs[r].stopped

\* C35: a unit left PROCESSING by a stopped run stays PROCESSING until it is
\* deleted: no step gives it another status, and no step issues a new
\* synthesis call for it.
C35_StoppedUnitsStayInFlight ==
    [][\A j \in ProjectIds, u \in UnitIds :
          StoppedInFlight(j, u)
          => \/ u \notin SegIds(projects'[j].segments)
             \/ /\ SegOf(projects'[j].segments, u).status = "PROCESSING"
                /\ \A r \in 1..Len(runs') :
                      u \in executing(runs'[r])
                      => r <= Len(runs) /\ u \in executing(runs[r])]_vars

\* ---------------------------------------------------------------------------
\* The edits of the segment list that do not touch the queue: volume and
\* selection.  They count as clicks.

EditMaxRuns == 2
EditMaxClicks == 3
EditMaxFailures == 0

\* The slider positions tried, in tenths.
EditVolumes == {5, 15}

\* App.tsx:391-396
handleVolumeChange(j, id, newVolume) ==
    /\ clicks < EditMaxClicks
    /\ id \in SegIds(projects[j].segments)
    /\ projects' = [projects EXCEPT ![j].segments =
                      [i \in 1..Len(@) |->
                          IF @[i].id = id THEN [@[i] EXCEPT !.volume = newVolume]
                          ELSE @[i]]]
    /\ clicks' = clicks + 1
    /\ UNCHANGED <<stopSignalsRef, runs, timers, nextId, apiKeys, envApiKey, failures,
                   exportUnits, exportOut, textVars>>

\* App.tsx:398-402
handleToggleSelect(j, id) ==
    /\ clicks < EditMaxClicks
    /\ id \in SegIds(projects[j].segments)
    /\ projects' = [projects EXCEPT ![j].segments =
                      [i \in 1..Len(@) |->
                          IF @[i].id = id
                          THEN [@[i] EXCEPT !.isSelected = ~@]
                          ELSE @[i]]]
    /\ clicks' = clicks + 1
    /\ UNCHANGED <<stopSignalsRef, runs, timers, nextId, apiKeys, envApiKey, failures,
                   exportUnits, exportOut, textVars>>

\* App.tsx:404-408, the Select All box (shown while there are segments).
handleSelectAll(j, shouldSelect) ==
    /\ clicks < EditMaxClicks
    /\ Len(projects[j].segments) > 0
    /\ projects' = [projects EXCEPT ![j].segments =
                      [i \in 1..Len(@) |-> [@[i] EXCEPT !.isSelected = shouldSelect]]]
    /\ clicks' = clicks + 1
    /\ UNCHANGED <<stopSignalsRef, runs, timers, nextId, apiKeys, envApiKey, failures,
                   exportUnits, exportOut, textVars>>

\* App.tsx:410-421, the bulk slider (shown while there are segments).
handleBulkVolumeChange(j, newVolume) ==
    /\ clicks < EditMaxClicks
    /\ Len(projects[j].segments) > 0
    /\ LET hasSelection == \E i \in 1..Len(projects[j].segments) :
                               projects[j].segments[i].isSelected
       IN projects' = [projects EXCEPT ![j].segments =
                         [i \in 1..Len(@) |->
                             IF hasSelection /\ ~@[i].isSelected THEN @[i]
                             ELSE [@[i] EXCEPT !.volume = newVolume]]]
    /\ clicks' = clicks + 1
    /\ UNCHANGED <<stopSignalsRef, runs, timers, nextId, apiKeys, envApiKey, failures,
                   exportUnits, exportOut, textVars>>

EditNext ==
    /\ \/ Next
       \/ \E j \in ProjectIds, id \in UnitIds, v \in EditVolumes :
             handleVolumeChange(j, id, v)
       \/ \E j \in ProjectIds, id \in UnitIds : handleToggleSelect(j, id)
       \/ \E j \in ProjectIds, b \in BOOLEAN : handleSelectAll(j, b)
       \/ \E j \in ProjectIds, v \in EditVolumes : handleBulkVolumeChange(j, v)
    /\ Len(runs') <= EditMaxRuns
    /\ clicks' <= EditMaxClicks
    /\ failures' <= EditMaxFailures

EditSpec == Init /\ [][EditNext]_vars

\* The ids of the segments of job j, in the order of the list.
IdsOf(segs) == [i \in 1..Len(segs) |-> segs[i].id]

\* C36: no step changes the relative order of the units that are in the
\* list before and after it, and every unit a step adds comes after all the
\* units that were there, IDLE, without result and with volume 1.0.
C36_OrderPreserved ==
    [][\A j \in ProjectIds :
          LET before == IdsOf(projects[j].segments)
              after == IdsOf(projects'[j].segments)
              old == SegIds(projects[j].segments)
              new == SegIds(projects'[j].segments)
          IN /\ SelectSeq(before, LAMBDA u : u \in new)
                  = SelectSeq(after, LAMBDA u : u \in old)
             /\ \A i \in 1..Len(after) :
                   after[i] \notin old =>
                      /\ \A k \in 1..Len(after) : after[k] \in old => k < i
                      /\ projects'[j].segments[i].status = "IDLE"
                      /\ projects'[j].segments[i].audioUrl = Undefined
                      /\ projects'[j].segments[i].volume = 10]_vars

\* Units 1 and 3 are left of three, in that order, unit 2 having been
\* removed; unit 1 has been through a run and unit 3 has had its volume
\* changed.
C36_Witness ==
    /\ IdsOf(projects[1].segments) = <<1, 3>>
    /\ projects[1].segments[1].status \in {"COMPLETED", "ERROR"}
    /\ projects[1].segments[2].volume # 10

\* C37: the credential of a task is the one selected at its dispatch and
\* stays the same through all of its attempts; a step that starts another
\* attempt leaves the cursor where it is; and while a run over a pool is under
\* way its cursor moves exactly by the number of units it dispatches.
C37_KeyFixedPerUnit ==
    [][\A r \in 1..Len(runs) :
          /\ \A u \in executing(runs[r]) \cap executing(runs'[r]) :
                /\ runs'[r].task[u].key = runs[r].task[u].key
                /\ runs'[r].task[u].key =
                      EffectiveKey(runs'[r].keys[SelPos(runs'[r].sel, u)])
                /\ runs'[r].task[u].attempt # runs[r].task[u].attempt
                      => /\ runs'[r].keyIndex = runs[r].keyIndex
                         /\ runs'[r].keys = runs[r].keys
          /\ (runs'[r].pc # "done" /\ Len(apiKeys) > 0)
                => runs'[r].keyIndex - runs[r].keyIndex
                      = Len(runs'[r].calls) - Len(runs[r].calls)]_vars

\* The second unit a run dispatched is in its third attempt, still with the
\* second key of the pool, and the cursor stands at the number of dispatches.
C37_Witness ==
    \E r \in 1..Len(runs) :
        /\ Len(apiKeys) = 2
        /\ Len(runs[r].sel) >= 2
        /\ runs[r].sel[2] \in executing(runs[r])
        /\ runs[r].task[runs[r].sel[2]].attempt = maxRetries
        /\ runs[r].task[runs[r].sel[2]].phase = "calling"
        /\ runs[r].task[runs[r].sel[2]].key = apiKeys[2]
        /\ runs[r].keyIndex = Len(runs[r].calls)

====
